---------------------------- MODULE Spec2Model ----------------------------
(***************************************************************************)
(* A model of the chunked key-value store `Database` that is layered on    *)
(* the host's dynamic properties (world.getDynamicProperty and friends).   *)
(*                                                                         *)
(* The canonical copy of the class is src/unnamed/part_000; the first copy *)
(* in src/unnamed/part_001 (lines 1-234) is an older one whose set, get    *)
(* and delete validate their key differently: it is modelled by the        *)
(* Legacy* actions and the specification LegacySpec.                       *)
(*                                                                         *)
(* Spec is one store with every operation; SetDeleteSpec, SharedSpec (two  *)
(* stores on the one substrate), InternSpec (two variables holding         *)
(* instances), AsyncSpec (getAsync, setAsync and the host's scheduler),     *)
(* OverlapSpec (two stores, the id of one a prefix of the other's entries) *)
(* and TickSpec (a read scheduled before a write) are the same actions in  *)
(* other combinations.  JsonSpec is the class JSONStorage of               *)
(* src/DATABASE.js on the same substrate.                                  *)
(*                                                                         *)
(* Property ids and logical keys are TLA+ strings.  The text of a stored   *)
(* value can be 70000 characters long, so a text is kept run-length        *)
(* encoded: a sequence of runs [c |-> character, n |-> repetitions] in     *)
(* which adjacent runs differ in c and every n is positive.                *)
(***************************************************************************)
EXTENDS Integers, Sequences, FiniteSets, TLC

VARIABLES
    props,          \* the substrate: dynamic property id -> stored value
    DB_INSTANCES,   \* the registry of the (single) source `world`: id -> instance
    handle,         \* per caller's variable: the instance a construction returned
    queue,          \* the callbacks system.run holds, in the order scheduled
    promises,       \* the promises getAsync and setAsync returned, in call order
    _knownKeys,     \* per instance: the key index
    _dataCache,     \* per instance: the value cache, key -> value
    _autoCache,     \* per instance: the autoCache flag
    last,           \* history: the last call, its arguments and its outcome
    written,        \* history: per store, key -> the value of its last set
    indexAtRestart  \* history: per store, the key index lost by the restart

vars == <<props, DB_INSTANCES, handle, queue, promises, _knownKeys, _dataCache,
          _autoCache, last, written, indexAtRestart>>

\* what only getAsync, setAsync and the scheduler change
asyncVars == <<queue, promises>>

---------------------------------------------------------------------------
(* Program constants.                                                      *)

MAX_CHUNK_SIZE == 32767
INTERNAL_DB_PREFIX == "§▌"
KEY_TYPE_NATIVE == "N_"
KEY_TYPE_STRING == "S_"
KEY_TYPE_META_CHUNK == "M_"
KEY_TYPE_DATA_CHUNK == "D_"

(* Bounds of the model.                                                    *)

\* length of the large string of the three-chunk scenario
BlobLen == 70000
\* the chunk indices the substrate is inspected for are 0..MaxChunks-1
MaxChunks == 4
\* the calls of getAsync and setAsync a process makes
MaxAsync == 3

---------------------------------------------------------------------------
(* Texts (run-length encoded JavaScript strings).                          *)

Run(c, n) == IF n <= 0 THEN <<>> ELSE <<[c |-> c, n |-> n]>>

\* s + t
Cat(s, t) ==
    IF s = <<>> THEN t
    ELSE IF t = <<>> THEN s
    ELSE IF s[Len(s)].c = t[1].c
         THEN SubSeq(s, 1, Len(s) - 1)
                 \o <<[c |-> t[1].c, n |-> s[Len(s)].n + t[1].n]>>
                 \o Tail(t)
         ELSE s \o t

RECURSIVE TextLen(_)
\* s.length
TextLen(s) == IF s = <<>> THEN 0 ELSE s[1].n + TextLen(Tail(s))

RECURSIVE Take(_, _)
Take(s, n) ==
    IF n <= 0 \/ s = <<>> THEN <<>>
    ELSE IF s[1].n >= n THEN <<[c |-> s[1].c, n |-> n]>>
    ELSE <<s[1]>> \o Take(Tail(s), n - s[1].n)

RECURSIVE Drop(_, _)
Drop(s, n) ==
    IF n <= 0 \/ s = <<>> THEN s
    ELSE IF s[1].n > n THEN <<[c |-> s[1].c, n |-> s[1].n - n]>> \o Tail(s)
    ELSE Drop(Tail(s), n - s[1].n)

\* s.substring(from, to), 0 <= from <= to
substring(s, from, to) == Take(Drop(s, from), to - from)

RECURSIVE LitFrom(_, _)
LitFrom(str, i) ==
    IF i > Len(str) THEN <<>>
    ELSE Cat(Run(SubSeq(str, i, i), 1), LitFrom(str, i + 1))

\* the text of a TLA+ string literal
Lit(str) == LitFrom(str, 1)

---------------------------------------------------------------------------
(* JavaScript values.                                                      *)

undefined == [t |-> "undefined"]
null == [t |-> "null"]
Num(n) == [t |-> "number", n |-> n]
Bool(b) == [t |-> "boolean", b |-> b]
Str(s) == [t |-> "string", s |-> s]
\* an object: its own enumerable property names in order, and their values
Obj(names, vals) == [t |-> "object", names |-> names, vals |-> vals]

typeof(v) == IF v.t = "null" THEN "object" ELSE v.t

\* value ? ... : ...   (the values of the model are never NaN)
Truthy(v) ==
    CASE v.t = "undefined" -> FALSE
      [] v.t = "null" -> FALSE
      [] v.t = "number" -> v.n # 0
      [] v.t = "boolean" -> v.b
      [] v.t = "string" -> v.s # <<>>
      [] OTHER -> TRUE

\* value[name]
Field(v, name) ==
    IF v.t = "object" /\ \E i \in 1..Len(v.names) : v.names[i] = name
    THEN v.vals[CHOOSE i \in 1..Len(v.names) : v.names[i] = name]
    ELSE undefined

_isVector(value) ==
    /\ Truthy(value)
    /\ \A k \in {"x", "y", "z"} : typeof(Field(value, k)) = "number"
    /\ value.t = "object" /\ Len(value.names) = 3

RECURSIVE JSONStringify(_)
RECURSIVE JoinMembers(_, _)
\* the members of object v from the i-th on, comma separated
JoinMembers(v, i) ==
    IF i > Len(v.names) THEN <<>>
    ELSE Cat(Cat(Lit(IF i > 1 THEN ",\"" ELSE "\""),
                 Cat(Lit(v.names[i]), Lit("\":"))),
             Cat(JSONStringify(v.vals[i]), JoinMembers(v, i + 1)))

\* JSON.stringify(v) for the JSON values of the model: the texts and names
\* of the model hold no character that JSON escapes
JSONStringify(v) ==
    CASE v.t = "number" -> Lit(ToString(v.n))
      [] v.t = "boolean" -> Lit(IF v.b THEN "true" ELSE "false")
      [] v.t = "null" -> Lit("null")
      [] v.t = "string" -> Cat(Lit("\""), Cat(v.s, Lit("\"")))
      [] v.t = "object" -> Cat(Lit("{"), Cat(JoinMembers(v, 1), Lit("}")))

---------------------------------------------------------------------------
(* The values and keys the operations are called with.                     *)

Vector == Obj(<<"x", "y", "z">>, <<Num(1), Num(2), Num(3)>>)
EmptyObject == Obj(<<>>, <<>>)
\* {a: "aaa..."}: its JSON text is longer than MAX_CHUNK_SIZE
BigObject == Obj(<<"a">>, <<Str(Run("a", MAX_CHUNK_SIZE))>>)
\* "aaa...": exactly MAX_CHUNK_SIZE characters, the longest single entry
FullString == Str(Run("a", MAX_CHUNK_SIZE))
\* "aaa...": one character more, two chunks
TwoChunkString == Str(Run("a", MAX_CHUNK_SIZE + 1))
\* "a".repeat(70000): three chunks
Blob == Str(Run("a", BlobLen))

\* the defined values set is called with
StoredValues ==
    {Num(42), Bool(FALSE), Vector, Str(Lit("hi")), Str(Lit("42")),
     EmptyObject, BigObject, FullString, TwoChunkString, Blob}

Values == StoredValues \cup {undefined}

\* An argument passed as a key: whether it is a string, and its text (for a
\* value that is no string, the text a template literal gives it).
KeyArg(isString, s) == [isString |-> isString, s |-> s]
Keys == {"k"}
ValidKeyArgs == {KeyArg(TRUE, k) : k \in Keys}
InvalidKeyArgs == {KeyArg(TRUE, ""), KeyArg(TRUE, " "), KeyArg(FALSE, "7")}
KeyArgs == ValidKeyArgs \cup InvalidKeyArgs
\* the key argument of a call that has none
NoKey == KeyArg(FALSE, "undefined")

\* Two stores on the one substrate; "a" followed by "_" is a prefix of "a_D".
DbIds == {"a", "a_D"}

\* Two more whose entries coincide: key "k" of store "a_N" and key "N_k" of
\* store "a" have the one NATIVE entry.
OverlapIds == {"a", "a_N"}
\* the key each of the two is called with
OverlapKey(d) == KeyArg(TRUE, IF d = "a" THEN "N_k" ELSE "k")

\* every id an instance is constructed with
StoreIds == DbIds \cup OverlapIds

RECURSIVE trim(_)
\* s.trim(), the only white space of the model being the blank
trim(s) ==
    IF s = "" THEN s
    ELSE IF SubSeq(s, 1, 1) = " " THEN trim(SubSeq(s, 2, Len(s)))
    ELSE IF SubSeq(s, Len(s), Len(s)) = " " THEN trim(SubSeq(s, 1, Len(s) - 1))
    ELSE s

\* typeof key !== 'string' || !key.trim()
InvalidKey(key) == ~key.isString \/ trim(key.s) = ""

\* The JSON values whose text a read of the model can meet.  A text of the
\* model is a text of StoredValues, a chunk of one, or such texts joined
\* with "undefined"; it has no white space, escape, sign, fraction or
\* exponent, so it is JSON only if it is the canonical text of one of these.
JsonValues ==
    {Num(42), Bool(TRUE), Bool(FALSE), null, EmptyObject, BigObject,
     Str(Lit("hi")), Str(Lit("42")), Blob}

\* JSON.parse(text): ok is FALSE when it throws
JSONParse(text) ==
    IF \E v \in JsonValues : JSONStringify(v) = text
    THEN [ok |-> TRUE, v |-> CHOOSE v \in JsonValues : JSONStringify(v) = text]
    ELSE [ok |-> FALSE, v |-> undefined]

---------------------------------------------------------------------------
(* The substrate (the host's dynamic properties).                          *)

NoProps == [id \in {} |-> undefined]

getDynamicProperty(p, id) == IF id \in DOMAIN p THEN p[id] ELSE undefined

\* setDynamicProperty(id, value); value undefined (or omitted) removes id
setDynamicProperty(p, id, value) ==
    IF value = undefined
    THEN [x \in DOMAIN p \ {id} |-> p[x]]
    ELSE [x \in DOMAIN p \cup {id} |-> IF x = id THEN value ELSE p[x]]

getDynamicPropertyIds(p) == DOMAIN p

startsWith(s, prefix) ==
    Len(s) >= Len(prefix) /\ SubSeq(s, 1, Len(prefix)) = prefix

---------------------------------------------------------------------------
(* The private helpers of Database.                                        *)

_fullPrefixBase(d) == INTERNAL_DB_PREFIX \o d \o "_"

_buildKey(d, key, type, index) ==
    IF type = KEY_TYPE_DATA_CHUNK
    THEN _fullPrefixBase(d) \o type \o key \o "_" \o ToString(index)
    ELSE _fullPrefixBase(d) \o type \o key

RECURSIVE RemoveChunks(_, _, _, _, _)
\* for (let i = from; i < count; i++) setDynamicProperty(D_key_i)
RemoveChunks(p, d, key, from, count) ==
    IF from >= count THEN p
    ELSE RemoveChunks(
             setDynamicProperty(p, _buildKey(d, key, KEY_TYPE_DATA_CHUNK, from),
                                undefined),
             d, key, from + 1, count)

_deleteKeyChunks(p, d, key) ==
    LET p1 == setDynamicProperty(p, _buildKey(d, key, KEY_TYPE_NATIVE, 0), undefined)
        p2 == setDynamicProperty(p1, _buildKey(d, key, KEY_TYPE_STRING, 0), undefined)
        p3 == setDynamicProperty(p2, _buildKey(d, key, KEY_TYPE_META_CHUNK, 0), undefined)
        \* read after the META_CHUNK entry has been removed
        chunkCount == getDynamicProperty(p3, _buildKey(d, key, KEY_TYPE_META_CHUNK, 0))
    IN  IF typeof(chunkCount) = "number"
        THEN RemoveChunks(p3, d, key, 0, chunkCount.n)
        ELSE p3

RECURSIVE SplitFrom(_, _)
SplitFrom(str, i) ==
    IF i >= TextLen(str) THEN <<>>
    ELSE <<substring(str, i, i + MAX_CHUNK_SIZE)>>
             \o SplitFrom(str, i + MAX_CHUNK_SIZE)

RECURSIVE SplitShortFrom(_, _)
SplitShortFrom(str, i) ==
    IF i >= TextLen(str) THEN <<>>
    ELSE <<substring(str, i, i + MAX_CHUNK_SIZE - 1)>>
             \o SplitShortFrom(str, i + MAX_CHUNK_SIZE)

\* chunks cut one character short of the step of the loop
SplitOffByOne(str) == SplitShortFrom(str, 0)

\* the chunks, in order (chunk i is element i+1)
_splitIntoChunks(str) == SplitFrom(str, 0)

_checkKeyExists(p, d, key) ==
    \E t \in {KEY_TYPE_NATIVE, KEY_TYPE_STRING, KEY_TYPE_META_CHUNK} :
        getDynamicProperty(p, _buildKey(d, key, t, 0)) # undefined

\* a cache that is filled whatever the autoCache flag says
CacheAlways(cache, auto, key, value) ==
    [x \in DOMAIN cache \cup {key} |-> IF x = key THEN value ELSE cache[x]]

_cacheValue(cache, auto, key, value) ==
    IF auto THEN [x \in DOMAIN cache \cup {key} |->
                     IF x = key THEN value ELSE cache[x]]
    ELSE cache

\* a cache whose entry is not removed
CacheKeep(cache, key) == cache

\* Map.prototype.delete
CacheDelete(cache, key) == [x \in DOMAIN cache \ {key} |-> cache[x]]

NoCache == [k \in {} |-> undefined]

---------------------------------------------------------------------------
(* Index reconstruction: the regular expression of                         *)
(* _initializeFromProperties,                                              *)
(*   P(?:N_|S_|M_)(.+)|PD_(.+?)_\d+$     with P the store's prefix,         *)
(* as String.prototype.match applies it: the leftmost position where an    *)
(* alternative matches, the first alternative first.  The ids of the model *)
(* hold no line terminator, so (.+) runs to the end of the id, and no      *)
(* character that is special in a regular expression.                      *)

Digits == {"0", "1", "2", "3", "4", "5", "6", "7", "8", "9"}

\* \d+$ matches all of s
IsDigits(s) == s # "" /\ \A i \in 1..Len(s) : SubSeq(s, i, i) \in Digits

\* the position of the last "_" of s, 0 when there is none
LastUnderscore(s) ==
    LET at == {i \in 1..Len(s) : SubSeq(s, i, i) = "_"}
    IN  IF at = {} THEN 0 ELSE CHOOSE i \in at : \A j \in at : j <= i

\* P(?:N_|S_|M_)(.+) at the start of rest: the head matched, "" when none
SingleHead(d, rest) ==
    LET heads == {_fullPrefixBase(d) \o t :
                     t \in {KEY_TYPE_NATIVE, KEY_TYPE_STRING, KEY_TYPE_META_CHUNK}}
        hit == {h \in heads : startsWith(rest, h) /\ Len(rest) > Len(h)}
    IN  IF hit = {} THEN "" ELSE CHOOSE h \in hit : TRUE

\* PD_(.+?)_\d+$ at the start of rest: the lazy group must leave "_" and
\* digits up to the end, so it ends before the last "_" of rest
ChunkGroup(d, rest) ==
    LET h == _fullPrefixBase(d) \o KEY_TYPE_DATA_CHUNK
        r == SubSeq(rest, Len(h) + 1, Len(rest))
        u == LastUnderscore(r)
    IN  IF startsWith(rest, h) /\ u > 1 /\ IsDigits(SubSeq(r, u + 1, Len(r)))
        THEN SubSeq(r, 1, u - 1)
        ELSE ""

\* match[1] || match[2] of prop.match(keyRegex), "" when there is no match
MatchKey(d, prop) ==
    LET at == {i \in 1..Len(prop) :
                  LET rest == SubSeq(prop, i, Len(prop))
                  IN  SingleHead(d, rest) # "" \/ ChunkGroup(d, rest) # ""}
    IN  IF at = {} THEN ""
        ELSE LET i == CHOOSE i \in at : \A j \in at : i <= j
                 rest == SubSeq(prop, i, Len(prop))
                 h == SingleHead(d, rest)
             IN  IF h # "" THEN SubSeq(rest, Len(h) + 1, Len(rest))
                 ELSE ChunkGroup(d, rest)

\* the key index a new instance of store d builds from substrate p
_initializeFromProperties(p, d) ==
    LET ids == {id \in getDynamicPropertyIds(p) :
                   startsWith(id, _fullPrefixBase(d))}
    IN  {MatchKey(d, id) : id \in {x \in ids : MatchKey(d, x) # ""}}

---------------------------------------------------------------------------
(* set, get, has, delete and clear as functions of the state they read.    *)

\* the (possibly serialized) payload of set
Processed(value) ==
    IF typeof(value) = "object" /\ ~_isVector(value)
    THEN Str(JSONStringify(value))
    ELSE value

RECURSIVE WriteChunks(_, _, _, _, _)
\* chunks.forEach((chunk, i) => setDynamicProperty(D_key_i, chunk)), from i on
WriteChunks(p, d, key, chunks, i) ==
    IF i >= Len(chunks) THEN p
    ELSE WriteChunks(
             setDynamicProperty(p, _buildKey(d, key, KEY_TYPE_DATA_CHUNK, i),
                                Str(chunks[i + 1])),
             d, key, chunks, i + 1)

\* the substrate after set(key, value) on store d
SetProps(p, d, key, value) ==
    LET cleared == _deleteKeyChunks(p, d, key)
        processed == Processed(value)
    IN  IF value = undefined THEN cleared
        ELSE IF typeof(processed) = "string"
                /\ TextLen(processed.s) > MAX_CHUNK_SIZE
        THEN LET chunks == _splitIntoChunks(processed.s)
             IN  WriteChunks(
                     setDynamicProperty(cleared,
                         _buildKey(d, key, KEY_TYPE_META_CHUNK, 0),
                         Num(Len(chunks))),
                     d, key, chunks, 0)
        ELSE IF _isVector(value)
        THEN setDynamicProperty(cleared, _buildKey(d, key, KEY_TYPE_NATIVE, 0), value)
        ELSE setDynamicProperty(cleared,
                 _buildKey(d, key,
                     IF typeof(processed) = "string"
                     THEN KEY_TYPE_STRING ELSE KEY_TYPE_NATIVE, 0),
                 processed)

\* an index that drops a key it already holds instead of keeping it
SetKnownToggling(known, key, value) ==
    IF value = undefined \/ key \in known THEN known \ {key}
    ELSE known \cup {key}

\* an index that keeps the key when the value is absent
SetKnownKeeping(known, key, value) ==
    IF value = undefined THEN known ELSE known \cup {key}

\* the key index after set(key, value)
SetKnown(known, key, value) ==
    IF value = undefined THEN known \ {key} ELSE known \cup {key}

\* the value cache after set(key, value)
SetCache(cache, auto, key, value) ==
    IF value = undefined THEN CacheDelete(cache, key)
    ELSE _cacheValue(CacheDelete(cache, key), auto, key, value)

RECURSIVE ConcatChunks(_, _, _, _, _)
\* stringVal += getDynamicProperty(D_key_i) for i = from .. count-1; a
\* missing entry is undefined and adds the text "undefined"
ConcatChunks(p, d, key, from, count) ==
    IF from >= count THEN <<>>
    ELSE LET c == getDynamicProperty(p, _buildKey(d, key, KEY_TYPE_DATA_CHUNK, from))
         IN  Cat(IF c = undefined THEN Lit("undefined") ELSE c.s,
                 ConcatChunks(p, d, key, from + 1, count))

\* what get decodes from the substrate once the key is taken to exist
Decode(p, d, key) ==
    LET nativeVal == getDynamicProperty(p, _buildKey(d, key, KEY_TYPE_NATIVE, 0))
        direct == getDynamicProperty(p, _buildKey(d, key, KEY_TYPE_STRING, 0))
        chunkCount == getDynamicProperty(p, _buildKey(d, key, KEY_TYPE_META_CHUNK, 0))
        stringVal ==
            IF direct # undefined THEN direct
            ELSE IF typeof(chunkCount) = "number"
            THEN Str(ConcatChunks(p, d, key, 0, chunkCount.n))
            ELSE undefined
    IN  IF nativeVal # undefined THEN nativeVal
        ELSE IF ~Truthy(stringVal) THEN undefined
        ELSE IF JSONParse(stringVal.s).ok THEN JSONParse(stringVal.s).v
        ELSE stringVal

\* get reads the substrate (no cache entry, and the key is indexed or found)
GetReads(p, known, cache, d, key) ==
    /\ key \notin DOMAIN cache
    /\ key \in known \/ _checkKeyExists(p, d, key)

\* the value get(key) returns
GetValue(p, known, cache, d, key) ==
    IF key \in DOMAIN cache THEN cache[key]
    ELSE IF GetReads(p, known, cache, d, key) THEN Decode(p, d, key)
    ELSE undefined

\* the value cache after get(key)
GetCache(p, known, cache, auto, d, key) ==
    IF GetReads(p, known, cache, d, key)
    THEN _cacheValue(cache, auto, key, Decode(p, d, key))
    ELSE cache

\* the value has(key) returns; a key that is no string is no member of the
\* Map or the Set, and _buildKey uses its text
HasResult(p, known, cache, d, key) ==
    \/ key.isString /\ key.s \in DOMAIN cache
    \/ key.isString /\ key.s \in known
    \/ _checkKeyExists(p, d, key.s)

\* a clear that removes the NATIVE, STRING and META_CHUNK entries only
ClearSingleEntries(p, d) ==
    [x \in {id \in getDynamicPropertyIds(p) :
               ~\E t \in {KEY_TYPE_NATIVE, KEY_TYPE_STRING, KEY_TYPE_META_CHUNK} :
                    startsWith(id, _fullPrefixBase(d) \o t)} |-> p[x]]

\* the substrate after clear() on store d
ClearProps(p, d) ==
    [x \in {id \in getDynamicPropertyIds(p) :
               ~startsWith(id, _fullPrefixBase(d))} |-> p[x]]

---------------------------------------------------------------------------
(* The state machine.                                                      *)

Call(op, d, key, ret, threw) ==
    [op |-> op, db |-> d, key |-> key, ret |-> ret, threw |-> threw]

NoIndex == [had |-> FALSE, keys |-> {}]

\* the caller's variables that hold an instance
Handles == {"h1", "h2"}

\* an instance as a caller holds it: the object and its _databaseId
Instance(id, ref) == [_databaseId |-> id, ref |-> ref]
NoInstance == Instance("", -1)
NoInstances == [id \in {} |-> 0]

Init ==
    /\ props = NoProps
    /\ DB_INSTANCES = NoInstances
    /\ handle = [h \in Handles |-> NoInstance]
    /\ queue = <<>>
    /\ promises = <<>>
    /\ _knownKeys = [d \in StoreIds |-> {}]
    /\ _dataCache = [d \in StoreIds |-> NoCache]
    /\ _autoCache = [d \in StoreIds |-> TRUE]
    /\ last = Call("init", "", NoKey, undefined, FALSE)
    /\ written = [d \in StoreIds |-> NoCache]
    /\ indexAtRestart = [d \in StoreIds |-> NoIndex]

\* a call that throws: nothing but the history changes
Throws(op, d, key) ==
    /\ last' = Call(op, d, key, undefined, TRUE)
    /\ UNCHANGED <<props, handle, DB_INSTANCES, _knownKeys, _dataCache, _autoCache,
                   written, indexAtRestart>>

\* a lookup that never finds the id
NeverInterned(instances, id) == FALSE

\* DB_INSTANCES.get(source)?.has(id)
IsInterned(instances, id) == id \in DOMAIN instances

\* the object a `new` allocates: one that no variable and no registry holds
NewObject ==
    CHOOSE n \in 0..(Cardinality(Handles) + Cardinality(DbIds)) :
        /\ \A h \in Handles : handle[h].ref # n
        /\ \A id \in DOMAIN DB_INSTANCES : DB_INSTANCES[id] # n

\* h = new Database(id) / h = Database.get(id), source = world
constructor(h, id) ==
    /\ UNCHANGED asyncVars
    /\ IF trim(id) = "" THEN Throws("constructor", id, NoKey)
       ELSE IF IsInterned(DB_INSTANCES, id)
       THEN \* the constructor returns the registered instance
            /\ handle' = [handle EXCEPT ![h] = Instance(id, DB_INSTANCES[id])]
            /\ last' = Call("constructor", id, NoKey, undefined, FALSE)
            /\ UNCHANGED <<props, DB_INSTANCES, _knownKeys, _dataCache,
                           _autoCache, written, indexAtRestart>>
       ELSE /\ _knownKeys' = [_knownKeys EXCEPT ![id] =
                                 _initializeFromProperties(props, id)]
            /\ _dataCache' = [_dataCache EXCEPT ![id] = NoCache]
            /\ _autoCache' = [_autoCache EXCEPT ![id] = TRUE]
            /\ DB_INSTANCES' = [x \in DOMAIN DB_INSTANCES \cup {id} |->
                                   IF x = id THEN NewObject ELSE DB_INSTANCES[x]]
            /\ handle' = [handle EXCEPT ![h] = Instance(id, NewObject)]
            /\ last' = Call("constructor", id, NoKey, undefined, FALSE)
            /\ indexAtRestart' = [indexAtRestart EXCEPT ![id] = NoIndex]
            /\ UNCHANGED <<props, written>>

\* the body of set(key, value) behind its key check; op names the caller
SetBody(op, d, key, value) ==
    /\ props' = SetProps(props, d, key.s, value)
    /\ _knownKeys' = [_knownKeys EXCEPT ![d] = SetKnown(@, key.s, value)]
    /\ _dataCache' = [_dataCache EXCEPT ![d] = SetCache(@, _autoCache[d], key.s, value)]
    /\ written' = [written EXCEPT ![d] =
                      IF value = undefined THEN CacheDelete(@, key.s)
                      ELSE _cacheValue(@, TRUE, key.s, value)]
    /\ last' = Call(op, d, key, undefined, FALSE)
    /\ UNCHANGED <<handle, DB_INSTANCES, _autoCache, indexAtRestart>>

set(d, key, value) ==
    /\ d \in DOMAIN DB_INSTANCES
    /\ UNCHANGED asyncVars
    /\ IF InvalidKey(key) THEN Throws("set", d, key)
       ELSE SetBody("set", d, key, value)

\* the body of get(key) behind its key check
GetBody(op, d, key) ==
    /\ _dataCache' = [_dataCache EXCEPT ![d] =
                         GetCache(props, _knownKeys[d], @, _autoCache[d], d, key.s)]
    /\ last' = Call(op, d, key,
                    GetValue(props, _knownKeys[d], _dataCache[d], d, key.s), FALSE)
    /\ UNCHANGED <<props, handle, DB_INSTANCES, _knownKeys, _autoCache, written,
                   indexAtRestart>>

get(d, key) ==
    /\ d \in DOMAIN DB_INSTANCES
    /\ UNCHANGED asyncVars
    /\ IF InvalidKey(key) THEN Throws("get", d, key)
       ELSE GetBody("get", d, key)

\* a delete that asks has(key) only after it has removed the key
DeleteBodyExistsAfter(op, d, key) ==
    /\ props' = _deleteKeyChunks(props, d, key.s)
    /\ _dataCache' = [_dataCache EXCEPT ![d] = CacheDelete(@, key.s)]
    /\ _knownKeys' = [_knownKeys EXCEPT ![d] = @ \ {key.s}]
    /\ written' = [written EXCEPT ![d] = CacheDelete(@, key.s)]
    /\ last' = Call(op, d, key,
                    Bool(HasResult(props', _knownKeys'[d], _dataCache'[d], d, key)),
                    FALSE)
    /\ UNCHANGED <<handle, DB_INSTANCES, _autoCache, indexAtRestart>>

\* the body of delete(key) behind its key check
DeleteBody(op, d, key) ==
    /\ props' = _deleteKeyChunks(props, d, key.s)
    /\ _dataCache' = [_dataCache EXCEPT ![d] = CacheDelete(@, key.s)]
    /\ _knownKeys' = [_knownKeys EXCEPT ![d] = @ \ {key.s}]
    /\ written' = [written EXCEPT ![d] = CacheDelete(@, key.s)]
    /\ last' = Call(op, d, key,
                    Bool(HasResult(props, _knownKeys[d], _dataCache[d], d, key)),
                    FALSE)
    /\ UNCHANGED <<handle, DB_INSTANCES, _autoCache, indexAtRestart>>

delete(d, key) ==
    /\ d \in DOMAIN DB_INSTANCES
    /\ UNCHANGED asyncVars
    /\ IF InvalidKey(key) THEN Throws("delete", d, key)
       ELSE DeleteBody("delete", d, key)

deleteValue(d, key) ==
    /\ d \in DOMAIN DB_INSTANCES
    /\ UNCHANGED asyncVars
    /\ IF InvalidKey(key) THEN Throws("deleteValue", d, key)
       ELSE SetBody("deleteValue", d, key, undefined)

clear(d) ==
    /\ d \in DOMAIN DB_INSTANCES
    /\ UNCHANGED asyncVars
    /\ props' = ClearProps(props, d)
    /\ _dataCache' = [_dataCache EXCEPT ![d] = NoCache]
    /\ _knownKeys' = [_knownKeys EXCEPT ![d] = {}]
    /\ written' = [written EXCEPT ![d] = NoCache]
    /\ last' = Call("clear", d, NoKey, undefined, FALSE)
    /\ UNCHANGED <<handle, DB_INSTANCES, _autoCache, indexAtRestart>>

has(d, key) ==
    /\ d \in DOMAIN DB_INSTANCES
    /\ UNCHANGED asyncVars
    /\ last' = Call("has", d, key,
                    Bool(HasResult(props, _knownKeys[d], _dataCache[d], d, key)),
                    FALSE)
    /\ UNCHANGED <<props, handle, DB_INSTANCES, _knownKeys, _dataCache, _autoCache,
                   written, indexAtRestart>>

load(d, key) ==
    /\ d \in DOMAIN DB_INSTANCES
    /\ UNCHANGED asyncVars
    /\ IF key.isString /\ key.s \in DOMAIN _dataCache[d]
       THEN /\ last' = Call("load", d, key, undefined, FALSE)
            /\ UNCHANGED <<props, handle, DB_INSTANCES, _knownKeys, _dataCache,
                           _autoCache, written, indexAtRestart>>
       ELSE IF InvalidKey(key) THEN Throws("load", d, key)
       ELSE /\ _dataCache' = [_dataCache EXCEPT ![d] =
                   GetCache(props, _knownKeys[d], @, _autoCache[d], d, key.s)]
            /\ last' = Call("load", d, key, undefined, FALSE)
            /\ UNCHANGED <<props, handle, DB_INSTANCES, _knownKeys, _autoCache, written,
                           indexAtRestart>>

\* an unload that drops the key from the key index as well
UnloadForgetting(d, key) ==
    /\ d \in DOMAIN DB_INSTANCES
    /\ UNCHANGED asyncVars
    /\ _dataCache' = [_dataCache EXCEPT ![d] =
                         IF key.isString THEN CacheDelete(@, key.s) ELSE @]
    /\ _knownKeys' = [_knownKeys EXCEPT ![d] = @ \ {key.s}]
    /\ last' = Call("unload", d, key, undefined, FALSE)
    /\ UNCHANGED <<props, handle, DB_INSTANCES, _autoCache, written,
                   indexAtRestart>>

unload(d, key) ==
    /\ d \in DOMAIN DB_INSTANCES
    /\ UNCHANGED asyncVars
    /\ _dataCache' = [_dataCache EXCEPT ![d] =
                         IF key.isString THEN CacheDelete(@, key.s) ELSE @]
    /\ last' = Call("unload", d, key, undefined, FALSE)
    /\ UNCHANGED <<props, handle, DB_INSTANCES, _knownKeys, _autoCache, written,
                   indexAtRestart>>

enableCache(d) ==
    /\ d \in DOMAIN DB_INSTANCES
    /\ UNCHANGED asyncVars
    /\ _autoCache' = [_autoCache EXCEPT ![d] = TRUE]
    /\ last' = Call("enableCache", d, NoKey, undefined, FALSE)
    /\ UNCHANGED <<props, handle, DB_INSTANCES, _knownKeys, _dataCache, written,
                   indexAtRestart>>

disableCache(d) ==
    /\ d \in DOMAIN DB_INSTANCES
    /\ UNCHANGED asyncVars
    /\ _autoCache' = [_autoCache EXCEPT ![d] = FALSE]
    /\ last' = Call("disableCache", d, NoKey, undefined, FALSE)
    /\ UNCHANGED <<props, handle, DB_INSTANCES, _knownKeys, _dataCache, written,
                   indexAtRestart>>

\* The process ends and a new one starts: the module-level registry and every
\* instance are gone, the dynamic properties stay.
Restart ==
    /\ DB_INSTANCES' = NoInstances
    /\ handle' = [h \in Handles |-> NoInstance]
    /\ queue' = <<>>
    /\ promises' = <<>>
    /\ _knownKeys' = [d \in StoreIds |-> {}]
    /\ _dataCache' = [d \in StoreIds |-> NoCache]
    /\ _autoCache' = [d \in StoreIds |-> TRUE]
    /\ indexAtRestart' = [d \in StoreIds |->
           IF d \in DOMAIN DB_INSTANCES THEN [had |-> TRUE, keys |-> _knownKeys[d]]
           ELSE NoIndex]
    /\ last' = Call("restart", "", NoKey, undefined, FALSE)
    /\ UNCHANGED <<props, written>>

\* a promise as its holder sees it
Pending == [state |-> "pending", value |-> undefined]
Resolved(value) == [state |-> "resolved", value |-> value]

\* the arrow function handed to system.run, with what it closes over
Callback(op, d, key, value, promise) ==
    [op |-> op, db |-> d, key |-> key, value |-> value, promise |-> promise]

\* system.run(callback): the host keeps the callbacks in the order of the
\* calls and runs them, in that order, from the next tick on
system_run(q, callback) == Append(q, callback)

\* getAsync(key): the executor of the promise runs inside the call
getAsync(d, key) ==
    /\ d \in DOMAIN DB_INSTANCES
    /\ Len(promises) < MaxAsync
    /\ promises' = Append(promises, Pending)
    /\ queue' = system_run(queue,
                    Callback("get", d, key, undefined, Len(promises) + 1))
    /\ last' = Call("getAsync", d, key, undefined, FALSE)
    /\ UNCHANGED <<props, handle, DB_INSTANCES, _knownKeys, _dataCache,
                   _autoCache, written, indexAtRestart>>

\* setAsync(key, value)
setAsync(d, key, value) ==
    /\ d \in DOMAIN DB_INSTANCES
    /\ Len(promises) < MaxAsync
    /\ promises' = Append(promises, Pending)
    /\ queue' = system_run(queue,
                    Callback("set", d, key, value, Len(promises) + 1))
    /\ last' = Call("setAsync", d, key, undefined, FALSE)
    /\ UNCHANGED <<props, handle, DB_INSTANCES, _knownKeys, _dataCache,
                   _autoCache, written, indexAtRestart>>

\* The host runs the oldest callback: () => resolve(this.get(key)), or
\* () => { this.set(key, value); resolve(); }.  When get or set throws,
\* resolve is not reached and nothing settles the promise.
RunCallback ==
    /\ queue # <<>>
    /\ queue' = Tail(queue)
    /\ LET cb == Head(queue)
       IN  IF InvalidKey(cb.key)
           THEN /\ Throws(cb.op, cb.db, cb.key)
                /\ promises' = promises
           ELSE IF cb.op = "get"
           THEN /\ GetBody("get", cb.db, cb.key)
                /\ promises' = [promises EXCEPT ![cb.promise] =
                       Resolved(GetValue(props, _knownKeys[cb.db],
                                         _dataCache[cb.db], cb.db, cb.key.s))]
           ELSE /\ SetBody("set", cb.db, cb.key, cb.value)
                /\ promises' = [promises EXCEPT ![cb.promise] =
                                   Resolved(undefined)]

\* One store of the world, every value, and the keys set, get and delete reject.
Next ==
    \/ \E id \in {"a", ""} : constructor("h1", id)
    \/ \E key \in KeyArgs, value \in Values : set("a", key, value)
    \/ \E key \in KeyArgs : get("a", key)
    \/ \E key \in KeyArgs : delete("a", key)
    \/ \E key \in ValidKeyArgs : deleteValue("a", key)
    \/ clear("a")
    \/ \E key \in ValidKeyArgs : has("a", key)
    \/ \E key \in ValidKeyArgs : load("a", key)
    \/ \E key \in ValidKeyArgs : unload("a", key)
    \/ enableCache("a")
    \/ disableCache("a")
    \/ Restart

Spec == Init /\ [][Next]_vars

---------------------------------------------------------------------------
(* Only set and delete, across restarts.                                   *)

SetDeleteNext ==
    \/ constructor("h1", "a")
    \/ \E key \in KeyArgs, value \in Values : set("a", key, value)
    \/ \E key \in KeyArgs : delete("a", key)
    \/ Restart

SetDeleteSpec == Init /\ [][SetDeleteNext]_vars

---------------------------------------------------------------------------
(* Two stores sharing the substrate, with fewer values.                    *)

SharedValues == {Num(42), TwoChunkString, undefined}

SharedNext ==
    \/ \E d \in DbIds : constructor("h1", d)
    \/ \E d \in DbIds, key \in ValidKeyArgs, value \in SharedValues :
           set(d, key, value)
    \/ \E d \in DbIds, key \in ValidKeyArgs : get(d, key)
    \/ \E d \in DbIds, key \in ValidKeyArgs : delete(d, key)
    \/ \E d \in DbIds : clear(d)
    \/ \E d \in DbIds, key \in ValidKeyArgs : unload(d, key)
    \/ Restart

SharedSpec == Init /\ [][SharedNext]_vars

---------------------------------------------------------------------------
(* The older copy of the class (src/unnamed/part_001, lines 1-234): set    *)
(* returns at once for a key that is no string and checks nothing else,    *)
(* get and delete check nothing.  get and delete are called here with      *)
(* strings only.                                                           *)

RECURSIVE LegacyWriteChunks(_, _, _, _, _, _)
\* for (i = from; i < chunkCount; i++)
\*     setDynamicProperty(D_key_i, processed.substr(i * MAX, MAX))
LegacyWriteChunks(p, d, key, text, from, chunkCount) ==
    IF from >= chunkCount THEN p
    ELSE LegacyWriteChunks(
             setDynamicProperty(p, _buildKey(d, key, KEY_TYPE_DATA_CHUNK, from),
                 Str(substring(text, from * MAX_CHUNK_SIZE,
                               from * MAX_CHUNK_SIZE + MAX_CHUNK_SIZE))),
             d, key, text, from + 1, chunkCount)

\* the substrate after the older set(key, value), key a string
LegacySetProps(p, d, key, value) ==
    LET cleared == _deleteKeyChunks(p, d, key)
        processed == Processed(value)
    IN  IF value = undefined THEN cleared
        ELSE IF typeof(processed) = "string"
                /\ TextLen(processed.s) > MAX_CHUNK_SIZE
        THEN LET chunkCount ==
                     (TextLen(processed.s) + MAX_CHUNK_SIZE - 1) \div MAX_CHUNK_SIZE
             IN  LegacyWriteChunks(
                     setDynamicProperty(cleared,
                         _buildKey(d, key, KEY_TYPE_META_CHUNK, 0), Num(chunkCount)),
                     d, key, processed.s, 0, chunkCount)
        ELSE IF _isVector(value)
        THEN setDynamicProperty(cleared, _buildKey(d, key, KEY_TYPE_NATIVE, 0), value)
        ELSE setDynamicProperty(cleared,
                 _buildKey(d, key,
                     IF typeof(processed) = "string"
                     THEN KEY_TYPE_STRING ELSE KEY_TYPE_NATIVE, 0),
                 processed)

LegacySet(d, key, value) ==
    /\ d \in DOMAIN DB_INSTANCES
    /\ UNCHANGED asyncVars
    /\ IF ~key.isString
       THEN \* if (typeof key !== 'string') return this;
            /\ last' = Call("set", d, key, undefined, FALSE)
            /\ UNCHANGED <<props, handle, DB_INSTANCES, _knownKeys, _dataCache,
                           _autoCache, written, indexAtRestart>>
       ELSE /\ props' = LegacySetProps(props, d, key.s, value)
            /\ _knownKeys' = [_knownKeys EXCEPT ![d] = SetKnown(@, key.s, value)]
            /\ _dataCache' = [_dataCache EXCEPT ![d] =
                                 SetCache(@, _autoCache[d], key.s, value)]
            /\ written' = [written EXCEPT ![d] =
                              IF value = undefined THEN CacheDelete(@, key.s)
                              ELSE _cacheValue(@, TRUE, key.s, value)]
            /\ last' = Call("set", d, key, undefined, FALSE)
            /\ UNCHANGED <<handle, DB_INSTANCES, _autoCache, indexAtRestart>>

LegacyGet(d, key) ==
    /\ d \in DOMAIN DB_INSTANCES
    /\ UNCHANGED asyncVars
    /\ key.isString
    /\ GetBody("get", d, key)

LegacyDelete(d, key) ==
    /\ d \in DOMAIN DB_INSTANCES
    /\ UNCHANGED asyncVars
    /\ key.isString
    /\ DeleteBody("delete", d, key)

LegacyValues == {Num(42), TwoChunkString, undefined}
StringKeyArgs == {key \in KeyArgs : key.isString}

LegacyNext ==
    \/ constructor("h1", "a")
    \/ \E key \in KeyArgs, value \in LegacyValues : LegacySet("a", key, value)
    \/ \E key \in StringKeyArgs : LegacyGet("a", key)
    \/ \E key \in StringKeyArgs : LegacyDelete("a", key)
    \/ Restart

LegacySpec == Init /\ [][LegacyNext]_vars

---------------------------------------------------------------------------
(* Two variables of the caller, constructed with either id, again and      *)
(* again, around writes to the stores.                                     *)

InternValues == {Num(42), Str(Lit("hi")), undefined}

InternNext ==
    \/ \E h \in Handles, id \in DbIds \cup {""} : constructor(h, id)
    \/ \E d \in DbIds, key \in ValidKeyArgs, value \in InternValues :
           set(d, key, value)
    \/ \E d \in DbIds, key \in ValidKeyArgs : get(d, key)
    \/ \E d \in DbIds : disableCache(d)
    \/ Restart

InternSpec == Init /\ [][InternNext]_vars

---------------------------------------------------------------------------
(* The asynchronous wrappers and the host's scheduler.  The host runs every *)
(* callback handed to system.run, hence the weak fairness of RunCallback.  *)

AsyncValues == {Num(42), Str(Lit("42")), undefined}
AsyncKeyArgs == {KeyArg(TRUE, "k"), KeyArg(TRUE, "")}

AsyncNext ==
    \/ constructor("h1", "a")
    \/ disableCache("a")
    \/ \E key \in AsyncKeyArgs, value \in AsyncValues : setAsync("a", key, value)
    \/ \E key \in AsyncKeyArgs : getAsync("a", key)
    \/ RunCallback

AsyncSpec == Init /\ [][AsyncNext]_vars /\ WF_vars(RunCallback)

---------------------------------------------------------------------------
(* Two stores whose ids make entries coincide, every synchronous           *)
(* operation, one value.                                                   *)

OverlapValues == {Num(42), undefined}

OverlapNext ==
    \/ \E d \in OverlapIds : constructor("h1", d)
    \/ \E d \in OverlapIds, value \in OverlapValues :
           set(d, OverlapKey(d), value)
    \/ \E d \in OverlapIds : get(d, OverlapKey(d))
    \/ \E d \in OverlapIds : delete(d, OverlapKey(d))
    \/ \E d \in OverlapIds : deleteValue(d, OverlapKey(d))
    \/ \E d \in OverlapIds : clear(d)
    \/ \E d \in OverlapIds : load(d, OverlapKey(d))
    \/ \E d \in OverlapIds : unload(d, OverlapKey(d))
    \/ \E d \in OverlapIds : enableCache(d)
    \/ \E d \in OverlapIds : disableCache(d)

OverlapSpec == Init /\ [][OverlapNext]_vars

---------------------------------------------------------------------------
(* getAsync around synchronous writes: the callbacks the scheduler holds   *)
(* are reads, and set and delete are called between a getAsync and its     *)
(* slot.                                                                   *)

TickValues == {Num(42), Str(Lit("42")), TwoChunkString, undefined}

TickNext ==
    \/ constructor("h1", "a")
    \/ disableCache("a")
    \/ \E key \in ValidKeyArgs : getAsync("a", key)
    \/ \E key \in ValidKeyArgs, value \in TickValues : set("a", key, value)
    \/ \E key \in ValidKeyArgs : delete("a", key)
    \/ RunCallback

TickSpec == Init /\ [][TickNext]_vars /\ WF_vars(RunCallback)

---------------------------------------------------------------------------
(* JSONStorage (src/DATABASE.js): one JSON document per key, cut into      *)
(* chunks `key:i` with their number under `key.count`, on the same         *)
(* dynamic properties of the world.                                        *)

\* constructor(key, chunkSize = 32000)
chunkSize == 32000

getChunkKey(key, index) == key \o ":" \o ToString(index)

getCountKey(key) == key \o ".count"

RECURSIVE SliceFrom(_, _, _)
\* for (i = from; i < numChunks; i++)
\*     chunks.push(str.slice(i * chunkSize, (i + 1) * chunkSize))
SliceFrom(str, from, numChunks) ==
    IF from >= numChunks THEN <<>>
    ELSE <<substring(str, from * chunkSize, (from + 1) * chunkSize)>>
             \o SliceFrom(str, from + 1, numChunks)

\* #splitIntoChunks(str): numChunks = Math.ceil(str.length / chunkSize)
JSONStorage_splitIntoChunks(str) ==
    SliceFrom(str, 0, (TextLen(str) + chunkSize - 1) \div chunkSize)

RECURSIVE SaveChunks(_, _, _, _)
\* chunks.forEach((chunk, index) => setDynamicProperty(key:index, chunk))
SaveChunks(p, key, chunks, i) ==
    IF i >= Len(chunks) THEN p
    ELSE SaveChunks(setDynamicProperty(p, getChunkKey(key, i), Str(chunks[i + 1])),
                    key, chunks, i + 1)

RECURSIVE DropChunks(_, _, _, _)
\* for (i = from; i < count; i++) setDynamicProperty(key:i, undefined)
DropChunks(p, key, from, count) ==
    IF from >= count THEN p
    ELSE DropChunks(setDynamicProperty(p, getChunkKey(key, from), undefined),
                    key, from + 1, count)

\* getDynamicProperty(key.count) || 0, the entry being a number or missing
CountOrZero(p, key) ==
    LET c == getDynamicProperty(p, getCountKey(key))
    IN  IF Truthy(c) THEN c.n ELSE 0

\* the world's properties after save(data)
SaveProps(p, key, data) ==
    LET chunks == JSONStorage_splitIntoChunks(JSONStringify(data))
        p1 == setDynamicProperty(p, getCountKey(key), Num(Len(chunks)))
        p2 == SaveChunks(p1, key, chunks, 0)
        \* read after the new count has been written
        oldCount == CountOrZero(p2, key)
    IN  IF oldCount > Len(chunks)
        THEN DropChunks(p2, key, Len(chunks), oldCount)
        ELSE p2

RECURSIVE JoinChunks(_, _, _, _)
\* chunks.join('') of the chunks from..count-1, all of them strings
JoinChunks(p, key, from, count) ==
    IF from >= count THEN <<>>
    ELSE Cat(getDynamicProperty(p, getChunkKey(key, from)).s,
             JoinChunks(p, key, from + 1, count))

\* the value load() returns
LoadValue(p, key) ==
    LET count == getDynamicProperty(p, getCountKey(key))
    IN  IF count = undefined \/ count = Num(0) THEN Str(<<>>)
        ELSE IF \E i \in 0..(count.n - 1) :
                    typeof(getDynamicProperty(p, getChunkKey(key, i))) # "string"
        THEN Str(<<>>)
        ELSE LET parsed == JSONParse(JoinChunks(p, key, 0, count.n))
             IN  IF parsed.ok THEN parsed.v ELSE Str(<<>>)

\* what no JSONStorage method changes
databaseVars ==
    <<DB_INSTANCES, handle, queue, promises, _knownKeys, _dataCache,
      _autoCache, written, indexAtRestart>>

\* new JSONStorage(key).save(data)
JSONStorage_save(key, data) ==
    /\ props' = SaveProps(props, key, data)
    /\ last' = Call("JSONStorage.save", key, NoKey, data, FALSE)
    /\ UNCHANGED databaseVars

\* new JSONStorage(key).load()
JSONStorage_load(key) ==
    /\ last' = Call("JSONStorage.load", key, NoKey, LoadValue(props, key), FALSE)
    /\ UNCHANGED props
    /\ UNCHANGED databaseVars

\* new JSONStorage(key).clear()
JSONStorage_clear(key) ==
    /\ props' = setDynamicProperty(
                    DropChunks(props, key, 0, CountOrZero(props, key)),
                    getCountKey(key), undefined)
    /\ last' = Call("JSONStorage.clear", key, NoKey, undefined, FALSE)
    /\ UNCHANGED databaseVars

StorageKeys == {"s", "t"}
\* documents of one chunk (three of them), two chunks and three chunks
JsonData == {Num(42), Str(Lit("hi")), EmptyObject, BigObject, Blob}

JsonNext ==
    \/ \E key \in StorageKeys, data \in JsonData : JSONStorage_save(key, data)
    \/ \E key \in StorageKeys : JSONStorage_load(key)
    \/ \E key \in StorageKeys : JSONStorage_clear(key)

JsonSpec == Init /\ [][JsonNext]_vars

---------------------------------------------------------------------------
(* What the properties below read off a state.                             *)

\* the chunk indices i for which a DATA_CHUNK entry of key is among the ids
\* of substrate p
ChunkIndices(p, d, key) ==
    {i \in 0..(MaxChunks - 1) :
        \E id \in getDynamicPropertyIds(p) :
            id = _buildKey(d, key, KEY_TYPE_DATA_CHUNK, i)}

HasEntry(p, d, key, type) == _buildKey(d, key, type, 0) \in getDynamicPropertyIds(p)

\* the count N of key's META_CHUNK entry when key is stored in chunked form
\* (the entry and the chunks 0..N-1 it counts), else 0
ChunkedCount(p, d, key) ==
    LET m == getDynamicProperty(p, _buildKey(d, key, KEY_TYPE_META_CHUNK, 0))
    IN  IF typeof(m) = "number" /\ \A i \in 0..(m.n - 1) : i \in ChunkIndices(p, d, key)
        THEN m.n ELSE 0

\* the number of DATA_CHUNK entries value is stored as (0: a single entry or none)
NeededChunks(value) ==
    IF value = undefined THEN 0
    ELSE IF typeof(Processed(value)) = "string"
            /\ TextLen(Processed(value).s) > MAX_CHUNK_SIZE
    THEN Len(_splitIntoChunks(Processed(value).s))
    ELSE 0

\* the value of the last set of key on store d, undefined when it was deleted
Written(w, d, key) == IF key \in DOMAIN w[d] THEN w[d][key] ELSE undefined

\* this step is a call of op that returned
Returned(op) == last'.op = op /\ ~last'.threw /\ vars' # vars

---------------------------------------------------------------------------
(* The claims.                                                             *)

\* C1 (chunk cleanup): a set(k, v2) on a key stored as N >= 2 chunks, where
\* v2 is stored as M < N chunks (M = 0 for a single entry or for absent),
\* leaves no DATA_CHUNK entry of k with index >= M among the substrate ids.
C1_ChunkCleanup ==
    [][\A d \in DbIds, k \in Keys :
          (/\ Returned("set") /\ last'.db = d /\ last'.key.s = k
           /\ ChunkedCount(props, d, k) >= 2
           /\ NeededChunks(Written(written', d, k)) < ChunkedCount(props, d, k))
          => \A i \in ChunkIndices(props', d, k) :
                 i < NeededChunks(Written(written', d, k))]_vars

\* C2 (deletion completeness): delete(k) on a key stored in chunked form
\* leaves neither its META_CHUNK entry nor any DATA_CHUNK entry; has(k) is
\* then false on the instance, and false on an instance constructed anew
\* from the substrate as delete left it.
C2_DeletionCompleteness ==
    [][\A d \in DbIds, k \in Keys :
          (/\ Returned("delete") /\ last'.db = d /\ last'.key.s = k
           /\ ChunkedCount(props, d, k) >= 1)
          => /\ ~HasEntry(props', d, k, KEY_TYPE_META_CHUNK)
             /\ ChunkIndices(props', d, k) = {}
             /\ ~HasResult(props', _knownKeys'[d], _dataCache'[d], d, KeyArg(TRUE, k))
             /\ ~HasResult(props', _initializeFromProperties(props', d), NoCache,
                           d, KeyArg(TRUE, k))]_vars

\* C3 (round trip): a get(k) that follows set(k, v), with no write to k in
\* between, returns v.
C3_RoundTrip ==
    (/\ last.op = "get" /\ ~last.threw
     /\ last.key.s \in DOMAIN written[last.db])
    => last.ret = written[last.db][last.key.s]

\* C4 (existence without cache): the get(k) that follows unload(k) of a key
\* that was set and not deleted reads the substrate and returns the value
\* that was set.
C4_GetAfterUnload ==
    [][\A d \in DbIds, k \in Keys :
          (/\ last.op = "unload" /\ last.db = d /\ last.key.s = k
           /\ Returned("get") /\ last'.db = d /\ last'.key.s = k
           /\ k \in DOMAIN written[d])
          => /\ GetReads(props, _knownKeys[d], _dataCache[d], d, k)
             /\ last'.ret = written[d][k]]_vars

\* C5 (restart consistency): the instance constructed after a restart has
\* the key index the instance of the same id had just before the restart.
C5_RestartConsistency ==
    [][\A d \in DbIds :
          (/\ Returned("constructor") /\ last'.db = d
           /\ d \notin DOMAIN DB_INSTANCES /\ indexAtRestart[d].had)
          => _knownKeys'[d] = indexAtRestart[d].keys]_vars

\* C6 (key index invariant): the key index of every instance is exactly the
\* set of keys with a NATIVE, STRING or META_CHUNK entry in the substrate.
C6_KeyIndexInvariant ==
    \A d \in DOMAIN DB_INSTANCES :
        _knownKeys[d] =
            {k \in Keys \cup _knownKeys[d] : _checkKeyExists(props, d, k)}

\* C7 (encoding exclusivity): of a key's NATIVE entry, STRING entry and
\* chunked form (META_CHUNK entry or any DATA_CHUNK entry) at most one is in
\* the substrate.
C7_EncodingExclusivity ==
    \A d \in DbIds, k \in Keys :
        Cardinality({e \in {"native", "string", "chunked"} :
            \/ e = "native" /\ HasEntry(props, d, k, KEY_TYPE_NATIVE)
            \/ e = "string" /\ HasEntry(props, d, k, KEY_TYPE_STRING)
            \/ e = "chunked" /\ (\/ HasEntry(props, d, k, KEY_TYPE_META_CHUNK)
                                 \/ ChunkIndices(props, d, k) # {})}) <= 1

\* the entries store d wrote: the ids _buildKey gives it for its keys
EntriesOf(p, d) ==
    {id \in getDynamicPropertyIds(p) :
        \E k \in Keys, i \in 0..(MaxChunks - 1),
           t \in {KEY_TYPE_NATIVE, KEY_TYPE_STRING, KEY_TYPE_META_CHUNK,
                  KEY_TYPE_DATA_CHUNK} : id = _buildKey(d, k, t, i)}

\* C8 (namespace isolation): clear() on one store removes no entry of a
\* store with another id, and its prefix filter selects none of them.
C8_NamespaceIsolation ==
    [][\A d \in DbIds, e \in DbIds :
          (Returned("clear") /\ last'.db = d /\ e # d)
          => \A id \in EntriesOf(props, e) :
                 /\ ~startsWith(id, _fullPrefixBase(d))
                 /\ id \in getDynamicPropertyIds(props')
                 /\ props'[id] = props[id]]_vars

\* C9 (missing-chunk degradation): a get(k) that finds no cache entry, and a
\* META_CHUNK entry counting N with a DATA_CHUNK entry of index < N missing,
\* returns absent and does not throw.
C9_MissingChunk ==
    [][\A d \in DbIds, k \in Keys :
          (/\ last'.op = "get" /\ last'.db = d /\ last'.key.s = k /\ vars' # vars
           /\ k \notin DOMAIN _dataCache[d]
           /\ typeof(getDynamicProperty(props,
                        _buildKey(d, k, KEY_TYPE_META_CHUNK, 0))) = "number"
           /\ ChunkedCount(props, d, k) = 0)
          => ~last'.threw /\ last'.ret = undefined]_vars

\* C10 (invalid key rejection): set, get and delete called with a key that
\* is not a non-empty string throw, and leave the substrate, the key index
\* and the value cache as they were.
C10_InvalidKeyRejected ==
    [][(/\ last'.op \in {"set", "get", "delete"}
        /\ InvalidKey(last'.key))
       => /\ last'.threw
          /\ props' = props
          /\ _knownKeys' = _knownKeys
          /\ _dataCache' = _dataCache]_vars

\* C11 (instance interning): every variable that holds an instance holds the
\* one the registry has for its id, so two variables constructed with the
\* same id hold the same instance and see the one key index and value cache;
\* constructing an id that is registered returns the registered instance and
\* leaves its key index, value cache and autoCache flag as they were.
C11_Interning ==
    [][/\ \A h \in Handles :
              handle'[h] # NoInstance
              => /\ handle'[h]._databaseId \in DOMAIN DB_INSTANCES'
                 /\ handle'[h].ref = DB_INSTANCES'[handle'[h]._databaseId]
       /\ \A g \in Handles, h \in Handles :
              (/\ handle'[g] # NoInstance
               /\ handle'[g]._databaseId = handle'[h]._databaseId)
              => handle'[g].ref = handle'[h].ref
       /\ \A d \in DOMAIN DB_INSTANCES :
              (last'.op = "constructor" /\ last'.db = d /\ ~last'.threw)
              => /\ DB_INSTANCES'[d] = DB_INSTANCES[d]
                 /\ _knownKeys'[d] = _knownKeys[d]
                 /\ _dataCache'[d] = _dataCache[d]
                 /\ _autoCache'[d] = _autoCache[d]]_vars

\* two variables hold store "a", the second constructed after a set made
\* through the first with caching disabled
C11_Witness ==
    /\ handle["h1"]._databaseId = "a" /\ handle["h2"]._databaseId = "a"
    /\ last.op = "constructor" /\ last.db = "a"
    /\ "k" \in _knownKeys["a"] /\ ~_autoCache["a"]

\* the entry of the given type that set writes for key, undefined when none
EntryOf(p, d, key, type) == getDynamicProperty(p, _buildKey(d, key, type, 0))

\* C12 (chunk layout): a set(k, v) whose payload (v, or its JSON text) is a
\* string of length L > MAX_CHUNK_SIZE leaves a META_CHUNK entry holding
\* N = ceil(L / MAX_CHUNK_SIZE) and DATA_CHUNK entries 0..N-1, each holding a
\* string of at most MAX_CHUNK_SIZE characters, whose concatenation in index
\* order is the payload, and writes no DATA_CHUNK entry of index >= N; a
\* payload that is no longer string is written as the one NATIVE or STRING
\* entry, with no META_CHUNK entry and no DATA_CHUNK entry written.
C12_ChunkLayout ==
    [][\A d \in DbIds, k \in Keys :
          (/\ Returned("set") /\ last'.db = d /\ last'.key.s = k
           /\ Written(written', d, k) # undefined)
          => LET v == Written(written', d, k)
                 payload == Processed(v)
                 L == IF typeof(payload) = "string" THEN TextLen(payload.s) ELSE 0
                 N == (L + MAX_CHUNK_SIZE - 1) \div MAX_CHUNK_SIZE
                 fresh == {i \in ChunkIndices(props', d, k) :
                              \/ i \notin ChunkIndices(props, d, k)
                              \/ getDynamicProperty(props',
                                     _buildKey(d, k, KEY_TYPE_DATA_CHUNK, i))
                                 # getDynamicProperty(props,
                                     _buildKey(d, k, KEY_TYPE_DATA_CHUNK, i))}
             IN  IF L > MAX_CHUNK_SIZE
                 THEN /\ EntryOf(props', d, k, KEY_TYPE_META_CHUNK) = Num(N)
                      /\ EntryOf(props', d, k, KEY_TYPE_NATIVE) = undefined
                      /\ EntryOf(props', d, k, KEY_TYPE_STRING) = undefined
                      /\ \A i \in 0..(N - 1) :
                             LET c == getDynamicProperty(props',
                                          _buildKey(d, k, KEY_TYPE_DATA_CHUNK, i))
                             IN  /\ typeof(c) = "string"
                                 /\ TextLen(c.s) <= MAX_CHUNK_SIZE
                                 /\ TextLen(c.s) >= 1
                      /\ ConcatChunks(props', d, k, 0, N) = payload.s
                      /\ \A i \in fresh : i < N
                 ELSE /\ EntryOf(props', d, k, KEY_TYPE_META_CHUNK) = undefined
                      /\ fresh = {}
                      /\ IF typeof(payload) = "string"
                         THEN /\ EntryOf(props', d, k, KEY_TYPE_STRING) = payload
                              /\ EntryOf(props', d, k, KEY_TYPE_NATIVE) = undefined
                         ELSE /\ EntryOf(props', d, k, KEY_TYPE_NATIVE) = payload
                              /\ EntryOf(props', d, k, KEY_TYPE_STRING) = undefined]_vars

\* set("k", "a".repeat(70000)) has returned: three chunks and their count
C12_Witness ==
    /\ last.op = "set" /\ ~last.threw
    /\ Written(written, "a", "k") = Blob
    /\ ChunkedCount(props, "a", "k") = 3
    /\ ChunkIndices(props, "a", "k") = {0, 1, 2}

\* C13 (async FIFO ordering): the scheduler runs the callbacks of getAsync
\* and setAsync one per slot in the order of the calls, and a getAsync(k)
\* whose callback runs when the last write to k was a set of v resolves
\* with v.
C13_AsyncFifo ==
    [][(queue # <<>> /\ queue' = Tail(queue))
       => LET cb == Head(queue)
          IN  /\ cb.promise = Len(promises) - Len(queue) + 1
              /\ (/\ cb.op = "get" /\ ~InvalidKey(cb.key)
                  /\ cb.key.s \in DOMAIN written[cb.db])
                 => promises'[cb.promise] = Resolved(written[cb.db][cb.key.s])]_vars

\* the promises whose callback the scheduler still holds
Scheduled == {queue[i].promise : i \in 1..Len(queue)}

\* C14 (async completion): the callback of every call of getAsync and
\* setAsync is held by the scheduler until it is run, and once it has been
\* run the promise of the call is resolved.
C14_AsyncCompletion ==
    \A p \in 1..Len(promises) :
        p \notin Scheduled => promises[p].state = "resolved"

\* C14 (async completion), as a property of behaviours in which the
\* scheduler runs every callback: the promise of every call is eventually
\* resolved.
C14_EventuallyResolved ==
    \A p \in 1..MaxAsync :
        (Len(promises) >= p)
        ~> (Len(promises) >= p /\ promises[p].state = "resolved")

\* what a caller observes of key on store d in the state (p, known, cache):
\* its membership of keys(), get(key), has(key) and size
Observed(p, known, cache, d, key) ==
    [member |-> key \in known,
     get |-> GetValue(p, known, cache, d, key),
     has |-> HasResult(p, known, cache, d, KeyArg(TRUE, key)),
     size |-> Cardinality(known)]

\* C15 (idempotence of set): in the state a set(k, v) has just left, a
\* second set(k, v) leaves the same key index membership, get(k), has(k) and
\* size.
C15_SetIdempotent ==
    (last.op = "set" /\ ~last.threw)
    => LET d == last.db
           k == last.key.s
           v == Written(written, d, k)
       IN  Observed(SetProps(props, d, k, v),
                    SetKnown(_knownKeys[d], k, v),
                    SetCache(_dataCache[d], _autoCache[d], k, v), d, k)
           = Observed(props, _knownKeys[d], _dataCache[d], d, k)

\* a set of a two-chunk string has returned with caching disabled, so the
\* get of the comparison decodes what the second set wrote
C15_Witness ==
    /\ last.op = "set" /\ ~last.threw /\ last.db = "a"
    /\ Written(written, "a", "k") = TwoChunkString
    /\ ~_autoCache["a"] /\ "k" \notin DOMAIN _dataCache["a"]

\* C16 (delete return value): delete(k) returns true exactly when, just
\* before it, k was in the value cache or in the key index or had a NATIVE,
\* STRING or META_CHUNK entry (the answer a has(k) made just before gave);
\* when it has returned k is in neither the cache nor the index and has(k)
\* is false.
C16_DeleteReturn ==
    [][\A d \in DbIds, k \in Keys :
          (Returned("delete") /\ last'.db = d /\ last'.key.s = k)
          => /\ last'.ret = Bool(\/ k \in DOMAIN _dataCache[d]
                                 \/ k \in _knownKeys[d]
                                 \/ HasEntry(props, d, k, KEY_TYPE_NATIVE)
                                 \/ HasEntry(props, d, k, KEY_TYPE_STRING)
                                 \/ HasEntry(props, d, k, KEY_TYPE_META_CHUNK))
             /\ (last.op = "has" /\ last.db = d /\ last.key.s = k)
                => last'.ret = last.ret
             /\ k \notin DOMAIN _dataCache'[d]
             /\ k \notin _knownKeys'[d]
             /\ ~HasResult(props', _knownKeys'[d], _dataCache'[d], d,
                           KeyArg(TRUE, k))]_vars

\* delete has returned true for a key that was stored
C16_Witness ==
    /\ last.op = "delete" /\ ~last.threw /\ last.ret = Bool(TRUE)
    /\ last.key.s \notin _knownKeys[last.db]

\* C17 (delete by absence): a set(k, absent) or a deleteValue(k) leaves the
\* state delete(k) leaves: the substrate without the entries delete removes,
\* the key index and the value cache without k, and nothing else changed.
C17_DeleteByAbsence ==
    [][\A d \in DbIds, k \in Keys :
          (/\ last'.op \in {"set", "deleteValue"} /\ ~last'.threw /\ vars' # vars
           /\ last'.db = d /\ last'.key.s = k
           /\ k \notin DOMAIN written'[d])
          => /\ props' = _deleteKeyChunks(props, d, k)
             /\ _knownKeys' = [_knownKeys EXCEPT ![d] = @ \ {k}]
             /\ _dataCache' = [_dataCache EXCEPT ![d] = CacheDelete(@, k)]
             /\ k \notin _knownKeys'[d] /\ k \notin DOMAIN _dataCache'[d]
             /\ _autoCache' = _autoCache]_vars

\* deleteValue has returned for a key that was stored in chunks
C17_Witness ==
    /\ last.op = "deleteValue" /\ ~last.threw /\ last.db = "a"
    /\ ChunkIndices(props, "a", "k") # {}
    /\ "k" \notin _knownKeys["a"] /\ "k" \notin DOMAIN _dataCache["a"]

\* C18 (clear postcondition): when clear() has returned, no id of the
\* substrate starts with the store's prefix, the value cache and the key
\* index are empty, size is 0, and for every key has is false and get
\* returns absent.
C18_ClearPostcondition ==
    [][\A d \in DbIds :
          (Returned("clear") /\ last'.db = d)
          => /\ \A id \in getDynamicPropertyIds(props') :
                    ~startsWith(id, _fullPrefixBase(d))
             /\ _dataCache'[d] = NoCache
             /\ _knownKeys'[d] = {}
             /\ Cardinality(_knownKeys'[d]) = 0
             /\ \A k \in Keys :
                    /\ ~HasResult(props', _knownKeys'[d], _dataCache'[d], d,
                                  KeyArg(TRUE, k))
                    /\ GetValue(props', _knownKeys'[d], _dataCache'[d], d, k)
                          = undefined]_vars

\* clear has returned on store "a_D" and took entries with it: of the
\* chunked key of store "a", whose chunk ids start with the prefix of "a_D",
\* the count is left and the chunks are gone
C18_Witness ==
    /\ last.op = "clear" /\ ~last.threw /\ last.db = "a_D"
    /\ HasEntry(props, "a", "k", KEY_TYPE_META_CHUNK)
    /\ ChunkIndices(props, "a", "k") = {}

C20_InvalidatedOnDisable ==
    [][\A d \in DbIds :
          /\ \A k \in Keys :
                 (Returned("delete") /\ last'.db = d /\ last'.key.s = k)
                 => k \notin DOMAIN _dataCache'[d]
          /\ (Returned("disableCache") /\ last'.db = d)
             => _dataCache'[d] = NoCache]_vars

\* C20 (cache invalidation) as amended: when delete(k) has returned the
\* value cache holds no entry for k; disableCache() removes no entry of the
\* value cache, and a later get of a key that has an entry returns it; a
\* get made while autoCache is off of a key that has no entry returns what
\* the substrate holds and adds no entry.
C20_CacheInvalidation ==
    [][\A d \in DbIds :
          /\ \A k \in Keys :
                 /\ (Returned("delete") /\ last'.db = d /\ last'.key.s = k)
                    => k \notin DOMAIN _dataCache'[d]
                 /\ (/\ Returned("get") /\ last'.db = d /\ last'.key.s = k
                     /\ k \in DOMAIN _dataCache[d])
                    => last'.ret = _dataCache[d][k]
                 /\ (/\ Returned("get") /\ last'.db = d /\ last'.key.s = k
                     /\ k \notin DOMAIN _dataCache[d] /\ ~_autoCache[d])
                    => /\ last'.ret =
                             IF k \in _knownKeys[d] \/ _checkKeyExists(props, d, k)
                             THEN Decode(props, d, k) ELSE undefined
                       /\ k \notin DOMAIN _dataCache'[d]
          /\ (Returned("disableCache") /\ last'.db = d)
             => /\ _dataCache'[d] = _dataCache[d]
                /\ ~_autoCache'[d]]_vars

\* disableCache has returned and the value cache still holds the key
C20_Witness ==
    /\ last.op = "disableCache" /\ ~last.threw /\ last.db = "a"
    /\ ~_autoCache["a"]
    /\ "k" \in DOMAIN _dataCache["a"]

C22_CacheWithinIndex ==
    \A d \in DOMAIN DB_INSTANCES : DOMAIN _dataCache[d] \subseteq _knownKeys[d]

\* C23 (tick-time read): when the scheduler runs the callback of a
\* getAsync(k) right after a synchronous set(k, v) or delete(k) that was
\* called after the getAsync, the promise resolves with v, or with absent
\* after the delete.
C23_TickTimeRead ==
    [][(/\ queue # <<>> /\ queue' = Tail(queue)
        /\ Head(queue).op = "get" /\ ~InvalidKey(Head(queue).key)
        /\ last.op \in {"set", "delete"} /\ ~last.threw
        /\ last.db = Head(queue).db /\ last.key = Head(queue).key)
       => promises'[Head(queue).promise] =
              Resolved(Written(written, Head(queue).db, Head(queue).key.s))]_vars

\* the number of chunks a document is saved as
ChunksOf(data) == (TextLen(JSONStringify(data)) + chunkSize - 1) \div chunkSize

\* C24 (JSONStorage stale-chunk cleanup): when save(d2) follows save(d1) on
\* the same key, d1 saved as N chunks and d2 as M < N chunks, no chunk entry
\* key:i with M <= i < N is among the world's properties and the count
\* entry holds M.
C24_StaleChunkCleanup ==
    [][\A key \in StorageKeys :
          (/\ last.op = "JSONStorage.save" /\ last.db = key
           /\ last'.op = "JSONStorage.save" /\ last'.db = key
           /\ ChunksOf(last'.ret) < ChunksOf(last.ret))
          => /\ \A i \in ChunksOf(last'.ret)..(ChunksOf(last.ret) - 1) :
                    getChunkKey(key, i) \notin getDynamicPropertyIds(props')
             /\ getDynamicProperty(props', getCountKey(key))
                   = Num(ChunksOf(last'.ret))]_vars

===========================================================================
